---- MODULE Spec2Model ----
(***************************************************************************)
(* Model of the verified-model registry: the verified_models table, the    *)
(* VerifiedModel entity and the VerifiedModelStore operations, each store  *)
(* call being one unit of work executed on its own.                        *)
(*                                                                         *)
(* A keyword-argument set or a model_data dict is a function whose domain  *)
(* is the set of keys that carry a value; an argument that is None (or a   *)
(* key that is absent) is a key outside the domain.                        *)
(***************************************************************************)
EXTENDS Integers, Sequences, FiniteSets, TLC

\* ------------------------------------------------------------------ bounds
MaxId == 2
MaxTime == 1
MaxBulk == 2

\* ------------------------------------------------------------------ inputs
Names == {"m1", "m2"}
Providers == {"p1", "p2"}

FlagNames ==
  {"is_verified", "is_enabled", "supports_function_calling",
   "supports_vision", "supports_prompt_cache", "supports_reasoning_effort"}

Columns ==
  {"id", "model_name", "provider", "created_at", "updated_at"} \cup FlagNames

NoArgs == [k \in {} |-> TRUE]

\* flag arguments of create_model calls: none given, and all six given, with
\* is_enabled once at its default and once not
CreateFlagChoices ==
  { NoArgs,
    [is_verified |-> FALSE, is_enabled |-> TRUE,
     supports_function_calling |-> TRUE, supports_vision |-> TRUE,
     supports_prompt_cache |-> TRUE, supports_reasoning_effort |-> TRUE],
    [is_verified |-> FALSE, is_enabled |-> FALSE,
     supports_function_calling |-> TRUE, supports_vision |-> TRUE,
     supports_prompt_cache |-> TRUE, supports_reasoning_effort |-> TRUE] }

\* field arguments of update_model calls: all None, and one flag set to False
\* with another set to True (on a row created disabled with all six flags
\* given, both values equal the stored ones)
UpdateFieldChoices ==
  { NoArgs,
    [is_enabled |-> FALSE, supports_vision |-> TRUE] }

\* model_data dicts of bulk_create_models calls; the last two are
\* malformed: an unknown key, and no provider
BulkItems ==
  { [model_name |-> "m1", provider |-> "p1"],
    [model_name |-> "m2", provider |-> "p1", is_verified |-> FALSE,
     is_enabled |-> FALSE, supports_function_calling |-> TRUE,
     supports_vision |-> TRUE, supports_prompt_cache |-> TRUE,
     supports_reasoning_effort |-> TRUE],
    [model_name |-> "m2", provider |-> "p2", bogus |-> TRUE],
    [model_name |-> "m1"] }

BulkInputs == UNION { [1..n -> BulkItems] : n \in 0..MaxBulk }

\* ------------------------------------------------------------------- state
VARIABLES
  table,    \* committed rows of verified_models, in insertion order
  nextId,   \* next value of the autoincrement primary key
  now,      \* database clock
  last,     \* the latest store call: its arguments and what it returned
  schema,   \* which declaration the table was created from
  api,      \* the latest HTTP request and its response
  tx,       \* the open unit of work of each concurrent caller
  commitOrder  \* the callers in the order their units of work ended

vars == <<table, nextId, now, last, schema, api, tx, commitOrder>>

\* what a store call made directly, outside any request, leaves alone
direct == <<schema, api, tx, commitOrder>>

\* the two declarations of the table: the entity's metadata, and migration 092
Schemas == {"metadata", "migration"}

\* ------------------------------------------------------------------ entity
\* Column(default=...) of the Boolean columns
ColumnDefault(k) == k \in {"is_verified", "is_enabled"}

\* the row an INSERT of VerifiedModel(**kw) produces
NewRow(id, kw, t) ==
  [c \in Columns |->
     IF c = "id" THEN id
     ELSE IF c \in {"created_at", "updated_at"} THEN t
     ELSE IF c \in DOMAIN kw THEN kw[c]
     ELSE ColumnDefault(c)]

\* would an INSERT of r violate the unique constraint of the table:
\* UniqueConstraint("model_name", "provider") in the entity's metadata,
\* UniqueConstraint("model_name") in the migration
UniqueViolation(rows, r) ==
  \E i \in 1..Len(rows) :
    /\ rows[i].model_name = r.model_name
    /\ schema = "metadata" => rows[i].provider = r.provider

\* ------------------------------------------------------------------ queries
IsEnabled(r) == r.is_enabled = TRUE
IsVerifiedEnabled(r) == r.is_verified = TRUE /\ r.is_enabled = TRUE

\* session.query(VerifiedModel).filter(model_name == name).first():
\* <<>> stands for None, <<r>> for the row found
FirstByName(rows, name) ==
  LET hits == SelectSeq(rows, LAMBDA r : r.model_name = name)
  IN IF hits = <<>> THEN <<>> ELSE <<hits[1]>>

get_all_models(rows) == rows

get_enabled_models(rows) == SelectSeq(rows, IsEnabled)

\* get_verified_models that filters on is_verified alone
get_verified_models_any_state(rows) ==
  SelectSeq(rows, LAMBDA r : r.is_verified = TRUE)

get_verified_models(rows) == SelectSeq(rows, IsVerifiedEnabled)

\* get_models_by_provider that forgets the is_enabled filter
get_models_by_provider_all(rows, provider) ==
  SelectSeq(rows, LAMBDA r : r.provider = provider)

get_models_by_provider(rows, provider) ==
  SelectSeq(rows, LAMBDA r : r.provider = provider /\ r.is_enabled = TRUE)

get_model_by_name(rows, name) == FirstByName(rows, name)

\* ------------------------------------------------------------------ helpers
IndexOf(rows, name) == CHOOSE i \in 1..Len(rows) : rows[i].model_name = name

RemoveAt(rows, i) == SubSeq(rows, 1, i - 1) \o SubSeq(rows, i + 1, Len(rows))

\* ---------------------------------------------------------------- mutations
\* the defaults of create_model's own parameters
CreateDefault(k) == k \in {"is_verified", "is_enabled"}

\* CreateKwargs that forgets to pass supports_reasoning_effort on
CreateKwargs_drops_flag(name, provider, kw) ==
  [c \in {"model_name", "provider"} \cup (FlagNames \ {"supports_reasoning_effort"}) |->
     IF c = "model_name" THEN name
     ELSE IF c = "provider" THEN provider
     ELSE IF c \in DOMAIN kw THEN kw[c]
     ELSE CreateDefault(c)]

\* keyword arguments create_model hands to VerifiedModel(...)
CreateKwargs(name, provider, kw) ==
  [c \in {"model_name", "provider"} \cup FlagNames |->
     IF c = "model_name" THEN name
     ELSE IF c = "provider" THEN provider
     ELSE IF c \in DOMAIN kw THEN kw[c]
     ELSE CreateDefault(c)]

\* create_model whose existence check filters on model_name and provider
create_model_checks_provider(rows, nid, t, name, provider, kw) ==
  LET existing == SelectSeq(rows, LAMBDA r : r.model_name = name
                                             /\ r.provider = provider)
      row == NewRow(nid, CreateKwargs(name, provider, kw), t)
  IN IF existing # <<>>
       THEN [outcome |-> "ValueError", table |-> rows, nextId |-> nid, rows |-> <<>>]
     ELSE [outcome |-> "ok", table |-> Append(rows, row), nextId |-> nid + 1,
           rows |-> <<row>>]

\* create_model without the existence check, relying on the constraint
create_model_no_check(rows, nid, t, name, provider, kw) ==
  LET row == NewRow(nid, CreateKwargs(name, provider, kw), t)
  IN IF UniqueViolation(rows, row)
       THEN [outcome |-> "IntegrityError", table |-> rows, nextId |-> nid,
             rows |-> <<>>]
     ELSE [outcome |-> "ok", table |-> Append(rows, row), nextId |-> nid + 1,
           rows |-> <<row>>]

create_model(rows, nid, t, name, provider, kw) ==
  LET existing == FirstByName(rows, name)
      row == NewRow(nid, CreateKwargs(name, provider, kw), t)
  IN IF existing # <<>>
       THEN [outcome |-> "ValueError", table |-> rows, nextId |-> nid, rows |-> <<>>]
     ELSE IF UniqueViolation(rows, row)
       THEN [outcome |-> "IntegrityError", table |-> rows, nextId |-> nid,
             rows |-> <<>>]
     ELSE [outcome |-> "ok", table |-> Append(rows, row), nextId |-> nid + 1,
           rows |-> <<row>>]

\* Assigned that tests the arguments for truth instead of "is not None"
Assigned_if_truthy(row, kw) ==
  [c \in Columns |->
     IF c \in FlagNames /\ c \in DOMAIN kw /\ kw[c] = TRUE THEN kw[c] ELSE row[c]]

\* the flags of a row after update_model assigned every non-None argument
Assigned(row, kw) ==
  [c \in Columns |-> IF c \in FlagNames /\ c \in DOMAIN kw THEN kw[c] ELSE row[c]]

\* CommitUpdate of an entity whose created_at has an onupdate as well
CommitUpdate_refreshes_created_at(row, assigned, t) ==
  IF assigned = row THEN row
  ELSE [assigned EXCEPT !["updated_at"] = t, !["created_at"] = t]

\* CommitUpdate of an entity whose updated_at has no onupdate
CommitUpdate_no_onupdate(row, assigned, t) == assigned

\* session.commit() of a loaded row: the unit of work compares each attribute
\* with its loaded value and emits an UPDATE only for a net change; the
\* onupdate=func.now() of updated_at is part of that UPDATE
CommitUpdate(row, assigned, t) ==
  IF assigned = row THEN row
  ELSE [assigned EXCEPT !["updated_at"] = t]

\* session.commit() of a row loaded earlier in the unit of work, when the
\* committed row may have changed since: the UPDATE sets the columns whose
\* value differs from the loaded one, and updated_at, on the row as it is
\* now; with no such column nothing is sent
CommitUpdateOnto(current, loaded, assigned, t) ==
  IF assigned = loaded THEN current
  ELSE [c \in Columns |->
          IF assigned[c] # loaded[c] THEN assigned[c]
          ELSE IF c = "updated_at" THEN t
          ELSE current[c]]

update_model(rows, t, name, kw) ==
  LET model == FirstByName(rows, name)
  IN IF model = <<>>
       THEN [outcome |-> "None", table |-> rows, rows |-> <<>>]
     ELSE LET i == IndexOf(rows, name)
              row == CommitUpdate(rows[i], Assigned(rows[i], kw), t)
          IN [outcome |-> "ok", table |-> [rows EXCEPT ![i] = row],
              rows |-> <<row>>]

\* delete_model that hands the result of the lookup to session.delete
\* without testing it
delete_model_unchecked(rows, name) ==
  LET model == FirstByName(rows, name)
  IN IF model = <<>>
       THEN [outcome |-> "UnmappedInstanceError", table |-> rows]
     ELSE [outcome |-> "True", table |-> RemoveAt(rows, IndexOf(rows, name))]

\* delete_model that disables the record instead of removing it
delete_model_soft(rows, name) ==
  LET model == FirstByName(rows, name)
  IN IF model = <<>>
       THEN [outcome |-> "False", table |-> rows]
     ELSE [outcome |-> "True",
           table |-> [rows EXCEPT ![IndexOf(rows, name)].is_enabled = FALSE]]

delete_model(rows, name) ==
  LET model == FirstByName(rows, name)
  IN IF model = <<>>
       THEN [outcome |-> "False", table |-> rows]
     ELSE [outcome |-> "True", table |-> RemoveAt(rows, IndexOf(rows, name))]

\* flush of the session's pending objects (at most one: every query of the
\* loop autoflushes): the INSERT fails on a NULL provider and on the unique
\* constraint
Flush(rows, pending, nid, t) ==
  IF pending = <<>> THEN [err |-> "", rows |-> rows, nid |-> nid]
  ELSE LET kw == pending[1]
           row == NewRow(nid, kw, t)
       IN IF "provider" \notin DOMAIN kw \/ UniqueViolation(rows, row)
            THEN [err |-> "IntegrityError", rows |-> rows, nid |-> nid]
          ELSE [err |-> "", rows |-> Append(rows, row), nid |-> nid + 1]

\* the INSERTs of all the pending objects of a unit of work, in the order
\* they were added
RECURSIVE FlushAll(_, _, _, _)
FlushAll(rows, pending, nid, t) ==
  IF pending = <<>> THEN [err |-> "", rows |-> rows, nid |-> nid]
  ELSE LET f == Flush(rows, <<pending[1]>>, nid, t)
       IN IF f.err # "" THEN f
          ELSE FlushAll(f.rows, Tail(pending), f.nid, t)

\* the for loop of bulk_create_models from position i on, then the commit.
\* rows: what the session sees (committed and flushed rows)
RECURSIVE BulkLoop(_, _, _, _, _, _, _)
BulkLoop(models, i, rows, pending, nid, created_count, t) ==
  IF i > Len(models)
    THEN LET f == Flush(rows, pending, nid, t)
         IN [err |-> f.err, rows |-> f.rows, nid |-> f.nid,
             count |-> created_count]
  ELSE IF "model_name" \notin DOMAIN models[i]
    THEN [err |-> "KeyError", rows |-> rows, nid |-> nid, count |-> created_count]
  ELSE LET f == Flush(rows, pending, nid, t)
       IN IF f.err # ""
            THEN [err |-> f.err, rows |-> f.rows, nid |-> f.nid,
                  count |-> created_count]
          ELSE IF FirstByName(f.rows, models[i].model_name) # <<>>
            THEN BulkLoop(models, i + 1, f.rows, <<>>, f.nid,
                          created_count, t)
          ELSE IF ~(DOMAIN models[i] \subseteq Columns)
            THEN [err |-> "TypeError", rows |-> f.rows, nid |-> f.nid,
                  count |-> created_count]
          ELSE BulkLoop(models, i + 1, f.rows, <<models[i]>>, f.nid,
                        created_count + 1, t)

\* bulk_create_models that returns the length of its input
bulk_create_models_counts_input(rows, nid, t, models) ==
  LET r == BulkLoop(models, 1, rows, <<>>, nid, 0, t)
  IN IF r.err = ""
       THEN [outcome |-> "ok", table |-> r.rows, nextId |-> r.nid,
             count |-> Len(models)]
     ELSE [outcome |-> r.err, table |-> rows, nextId |-> nid, count |-> 0]

\* bulk_create_models without the rollback: what was flushed before the
\* error stays
bulk_create_models_keeps_flushed(rows, nid, t, models) ==
  LET r == BulkLoop(models, 1, rows, <<>>, nid, 0, t)
  IN IF r.err = ""
       THEN [outcome |-> "ok", table |-> r.rows, nextId |-> r.nid,
             count |-> r.count]
     ELSE [outcome |-> r.err, table |-> r.rows, nextId |-> r.nid, count |-> 0]

\* bulk_create_models that counts every input record whose name was not
\* stored when the call began
bulk_create_models_counts_unstored(rows, nid, t, models) ==
  LET r == BulkLoop(models, 1, rows, <<>>, nid, 0, t)
  IN IF r.err = ""
       THEN [outcome |-> "ok", table |-> r.rows, nextId |-> r.nid,
             count |-> Len(SelectSeq(models,
                         LAMBDA m : FirstByName(rows, m.model_name) = <<>>))]
     ELSE [outcome |-> r.err, table |-> rows, nextId |-> nid, count |-> 0]

bulk_create_models(rows, nid, t, models) ==
  LET r == BulkLoop(models, 1, rows, <<>>, nid, 0, t)
  IN IF r.err = ""
       THEN [outcome |-> "ok", table |-> r.rows, nextId |-> r.nid,
             count |-> r.count]
     ELSE [outcome |-> r.err, table |-> rows, nextId |-> nid, count |-> 0]

\* ------------------------------------------------------------ API: strings
\* The routes look inside model_name and provider, so a request carries them
\* as sequences of characters, each character a one-character string.
Letters ==
  {"a", "b", "c", "d", "e", "f", "g", "h", "i", "j", "k", "l", "m", "n", "o",
   "p", "q", "r", "s", "t", "u", "v", "w", "x", "y", "z", "A", "B", "C", "D",
   "E", "F", "G", "H", "I", "J", "K", "L", "M", "N", "O", "P", "Q", "R", "S",
   "T", "U", "V", "W", "X", "Y", "Z"}

Digits == {"0", "1", "2", "3", "4", "5", "6", "7", "8", "9"}

\* the character class [a-zA-Z0-9]
Alnum(c) == c \in Letters \cup Digits

\* len(model_name) > 255 and len(provider) > 100 are rejected
MaxModelNameLen == 255
MaxProviderLen == 100

\* limit must be between 1 and 1000; its default and that of offset
MaxLimit == 1000
DefaultLimit == 100
DefaultOffset == 0

\* the whole of s is [a-zA-Z0-9]([a-zA-Z0-9<inner>]*[a-zA-Z0-9])?
FullMatch(s, inner) ==
  /\ Len(s) >= 1
  /\ Alnum(s[1])
  /\ Alnum(s[Len(s)])
  /\ \A i \in 2..(Len(s) - 1) : Alnum(s[i]) \/ s[i] \in inner

\* re.match(r'^...$', s): '^' is the start of the string; '$' matches at the
\* end of the string and also just before a line break that ends the string
re_match(s, inner) ==
  \/ FullMatch(s, inner)
  \/ /\ Len(s) >= 1
     /\ s[Len(s)] = "\n"
     /\ FullMatch(SubSeq(s, 1, Len(s) - 1), inner)

\* _validate_model_input: "" when it returns, else the detail of the
\* HTTPException(400) it raises
validate_model_input(model_name, provider) ==
  IF ~re_match(model_name, {"_", ".", "-"})
    THEN "model_name must start and end with alphanumeric characters"
  ELSE IF Len(model_name) > MaxModelNameLen
    THEN "model_name exceeds maximum length of 255 characters"
  ELSE IF ~re_match(provider, {"_", "-"})
    THEN "provider must start and end with alphanumeric characters"
  ELSE IF Len(provider) > MaxProviderLen
    THEN "provider exceeds maximum length of 100 characters"
  ELSE ""

\* -------------------------------------------------------- API: responses
\* a detail or an exception text: a fixed text and the value formatted into it
Detail(text, arg) == [text |-> text, arg |-> arg]

NoDetail == Detail("", <<>>)

\* an exception: its class and str(e)
Exc(cls, text) == [cls |-> cls, text |-> text]

\* the exception a store call ends with, from the outcome of the call
StoreError(outcome, name) ==
  IF outcome = "ValueError"
    THEN Exc("ValueError", Detail("Model already exists", name))
  ELSE Exc(outcome, Detail("database error", name))

\* what an endpoint answers and what it leaves behind: status and detail,
\* the store methods it called, the models or the created_count of the body
Reply(status, detail, calls, body, count, rows, nid) ==
  [status |-> status, detail |-> detail, calls |-> calls, body |-> body,
   count |-> count, table |-> rows, nextId |-> nid]

isoformat(t) == <<"iso", t>>

\* _model_to_response
model_to_response(model) ==
  [model EXCEPT !["created_at"] = isoformat(@), !["updated_at"] = isoformat(@)]

responses(models) == [i \in 1..Len(models) |-> model_to_response(models[i])]

\* the request body VerifiedModelCreate parses: absent flags get the defaults
\* of the class
VerifiedModelCreate(flags) ==
  [k \in FlagNames |->
     IF k \in DOMAIN flags THEN flags[k] ELSE k \in {"is_verified", "is_enabled"}]

\* model.model_dump()
model_dump(item) ==
  [c \in {"model_name", "provider"} \cup FlagNames |->
     IF c = "model_name" THEN item.model_name
     ELSE IF c = "provider" THEN item.provider
     ELSE VerifiedModelCreate(item.flags)[c]]

\* an optional query parameter: <<>> is None, <<v>> is the value v;
\* `if provider:` takes neither None nor the empty string
Truthy(opt) == opt # <<>> /\ Len(opt[1]) > 0

\* Slice that takes the element at position stop as well
Slice_inclusive(s, start, stop) ==
  SubSeq(s, start + 1, IF stop + 1 < Len(s) THEN stop + 1 ELSE Len(s))

\* s[start : stop] for 0 <= start <= stop
Slice(s, start, stop) ==
  SubSeq(s, start + 1, IF stop < Len(s) THEN stop ELSE Len(s))

\* -------------------------------------------------------- API: endpoints
\* fault: <<>> when the store call runs as written, <<e>> when it raises e
\* for a reason of its own (the database is away, a driver error, ...)

\* the store method the list endpoint chooses
list_method(q) ==
  IF Truthy(q.provider) THEN "get_models_by_provider"
  ELSE IF q.verified_only THEN "get_verified_models"
  ELSE IF q.enabled_only THEN "get_enabled_models"
  ELSE "get_all_models"

list_verified_models(rows, q, fault) ==
  IF q.limit < 1 \/ q.limit > MaxLimit
    THEN Reply(400, Detail("limit must be between 1 and 1000", <<>>),
               <<>>, <<>>, 0, rows, 0)
  ELSE IF q.offset < 0
    THEN Reply(400, Detail("offset must be non-negative", <<>>),
               <<>>, <<>>, 0, rows, 0)
  ELSE IF fault # <<>>
    THEN Reply(500, Detail("Failed to list verified models", <<>>),
               <<list_method(q)>>, <<>>, 0, rows, 0)
  ELSE LET models ==
             IF Truthy(q.provider)
               THEN get_models_by_provider(rows, q.provider[1])
             ELSE IF q.verified_only THEN get_verified_models(rows)
             ELSE IF q.enabled_only THEN get_enabled_models(rows)
             ELSE get_all_models(rows)
           paginated_models == Slice(models, q.offset, q.offset + q.limit)
       IN Reply(200, NoDetail, <<list_method(q)>>,
                responses(paginated_models), 0, rows, 0)

get_verified_model(rows, model_name, fault) ==
  IF fault # <<>>
    THEN Reply(500, Detail("Failed to get verified model", <<>>),
               <<"get_model_by_name">>, <<>>, 0, rows, 0)
  ELSE LET model == get_model_by_name(rows, model_name)
       IN IF model = <<>>
            THEN Reply(404, Detail("Model not found", model_name),
                       <<"get_model_by_name">>, <<>>, 0, rows, 0)
          ELSE Reply(200, NoDetail, <<"get_model_by_name">>,
                     responses(model), 0, rows, 0)

\* the except clauses of create_verified_model that answers every exception
\* of the store with the generic message
create_except_generic(e) ==
  [status |-> 500, detail |-> Detail("Failed to create verified model", <<>>)]

\* the except clauses of create_verified_model, for an exception e of the
\* store: `except ValueError as e` comes first and answers with str(e)
create_except(e) ==
  IF e.cls = "ValueError" THEN [status |-> 400, detail |-> e.text]
  ELSE [status |-> 500, detail |-> Detail("Failed to create verified model", <<>>)]

\* the status create_verified_model answers with when the store call ends
\* with outcome
create_status(outcome, name) ==
  IF outcome = "ok" THEN 201
  ELSE create_except(StoreError(outcome, name)).status

create_verified_model(rows, nid, t, data, fault) ==
  LET bad == validate_model_input(data.model_name, data.provider)
      r == create_model(rows, nid, t, data.model_name, data.provider,
                        VerifiedModelCreate(data.flags))
      raised == IF fault # <<>> THEN fault
                ELSE IF r.outcome = "ok" THEN <<>>
                ELSE <<StoreError(r.outcome, data.model_name)>>
  IN IF bad # ""
       THEN Reply(400, Detail(bad, <<>>), <<>>, <<>>, 0, rows, nid)
     ELSE IF raised # <<>>
       THEN Reply(create_except(raised[1]).status, create_except(raised[1]).detail,
                  <<"create_model">>, <<>>, 0, rows, nid)
     ELSE Reply(201, NoDetail, <<"create_model">>, responses(r.rows), 0,
                r.table, r.nextId)

update_verified_model(rows, t, model_name, flags, fault) ==
  IF fault # <<>>
    THEN Reply(500, Detail("Failed to update verified model", <<>>),
               <<"update_model">>, <<>>, 0, rows, 0)
  ELSE LET r == update_model(rows, t, model_name, flags)
       IN IF r.outcome = "None"
            THEN Reply(404, Detail("Model not found", model_name),
                       <<"update_model">>, <<>>, 0, rows, 0)
          ELSE Reply(200, NoDetail, <<"update_model">>, responses(r.rows), 0,
                     r.table, 0)

delete_verified_model(rows, model_name, fault) ==
  IF fault # <<>>
    THEN Reply(500, Detail("Failed to delete verified model", <<>>),
               <<"delete_model">>, <<>>, 0, rows, 0)
  ELSE LET r == delete_model(rows, model_name)
       IN IF r.outcome = "False"
            THEN Reply(404, Detail("Model not found", model_name),
                       <<"delete_model">>, <<>>, 0, rows, 0)
          ELSE Reply(200, NoDetail, <<"delete_model">>, <<>>, 0, r.table, 0)

\* the detail of the first item of the request that _validate_model_input
\* rejects, "" when it accepts them all
RECURSIVE FirstInvalid(_, _)
FirstInvalid(models, i) ==
  IF i > Len(models) THEN ""
  ELSE LET bad == validate_model_input(models[i].model_name, models[i].provider)
       IN IF bad # "" THEN bad ELSE FirstInvalid(models, i + 1)

\* bulk_create_verified_models that validates an item right before handing
\* it to the store on its own
RECURSIVE bulk_create_verified_models_one_by_one(_, _, _, _, _)
bulk_create_verified_models_one_by_one(rows, nid, t, models, fault) ==
  IF models = <<>>
    THEN Reply(200, NoDetail, <<"bulk_create_models">>, <<>>, 0, rows, nid)
  ELSE LET bad == validate_model_input(models[1].model_name, models[1].provider)
           r == bulk_create_models(rows, nid, t, <<model_dump(models[1])>>)
           rest == bulk_create_verified_models_one_by_one(
                     r.table, r.nextId, t, Tail(models), fault)
       IN IF bad # ""
            THEN Reply(400, Detail(bad, <<>>), <<"bulk_create_models">>, <<>>,
                       0, rows, nid)
          ELSE [rest EXCEPT !.count = @ + r.count]

bulk_create_verified_models(rows, nid, t, models, fault) ==
  LET bad == FirstInvalid(models, 1)
      models_data == [i \in 1..Len(models) |-> model_dump(models[i])]
      r == bulk_create_models(rows, nid, t, models_data)
  IN IF bad # ""
       THEN Reply(400, Detail(bad, <<>>), <<>>, <<>>, 0, rows, nid)
     ELSE IF fault # <<>> \/ r.outcome # "ok"
       THEN Reply(500, Detail("Failed to bulk create verified models", <<>>),
                  <<"bulk_create_models">>, <<>>, 0, rows, nid)
     ELSE Reply(200, NoDetail, <<"bulk_create_models">>, <<>>, r.count,
                r.table, r.nextId)

\* --------------------------------------------------------- API: requests
LongName == [i \in 1..(MaxModelNameLen + 1) |-> "a"]
LongProvider == [i \in 1..(MaxProviderLen + 1) |-> "p"]

\* model_name values of request bodies: two well-formed ones, the empty
\* string, one starting and one ending with '-', one ending with a line
\* break, one with a blank inside, and one of 256 characters
ApiNames ==
  { <<"m", "1">>, <<"m", "2">>, <<>>, <<"-", "m">>, <<"m", "-">>,
    <<"m", "1", "\n">>, <<"m", " ", "1">>, LongName }

\* provider values of request bodies: two well-formed ones, one with a dot
\* inside, and one of 101 characters
ApiProviders ==
  { <<"p", "1">>, <<"p", "2">>, <<"p", ".", "1">>, LongProvider }

\* the flags a create request or a bulk item spells out
ApiFlagChoices == {NoArgs, [is_verified |-> FALSE]}

\* bodies of create requests: every model_name with the first provider,
\* every provider with the first model_name, these two with no flag spelt
\* out, and the first model_name with every choice of provider and flags
CreateRequests ==
  { [model_name |-> n, provider |-> <<"p", "1">>, flags |-> NoArgs] :
      n \in ApiNames }
  \cup
  { [model_name |-> <<"m", "1">>, provider |-> p, flags |-> f] :
      p \in ApiProviders, f \in ApiFlagChoices }

\* model_name values of request paths
ApiPathNames == { <<"m", "1">>, <<"m", "2">> }

UpdateRequests ==
  { [model_name |-> n, flags |-> [is_enabled |-> FALSE]] : n \in ApiPathNames }

\* query strings of the list endpoint: every combination of filters with the
\* default page, and pages around the limits with and without enabled_only
ListQueries ==
  { [provider |-> pr, enabled_only |-> e, verified_only |-> v,
     limit |-> DefaultLimit, offset |-> DefaultOffset] :
      pr \in {<<>>, << <<"p", "1">> >>, << <<"p", "2">> >>},
      e \in BOOLEAN, v \in BOOLEAN }
  \cup
  { [provider |-> <<>>, enabled_only |-> e, verified_only |-> FALSE,
     limit |-> l, offset |-> o] :
      e \in BOOLEAN, l \in {0, 1, MaxLimit, MaxLimit + 1},
      o \in {-1, 0, 1, 2} }

ApiBulkItems ==
  { [model_name |-> <<"m", "1">>, provider |-> <<"p", "1">>, flags |-> NoArgs],
    [model_name |-> <<"m", "2">>, provider |-> <<"p", "1">>, flags |-> NoArgs],
    [model_name |-> <<"m", "-">>, provider |-> <<"p", "1">>, flags |-> NoArgs],
    [model_name |-> <<"m", "1">>, provider |-> <<"p", ".", "1">>,
     flags |-> NoArgs] }

BulkRequests == UNION { [1..n -> ApiBulkItems] : n \in 0..MaxBulk }

\* exceptions a store call can end with for a reason of its own
StoreFaults ==
  { Exc("OperationalError", Detail("connection refused", <<>>)),
    Exc("ValueError", Detail("invalid literal", <<>>)) }

\* the requests of an endpoint, each paired with what its store call does:
\* every request with a store that runs as written, and the requests of
\* faulted with every fault
Calls(requests, faulted) ==
  { <<req, <<>> >> : req \in requests }
    \cup { <<req, <<e>> >> : req \in faulted, e \in StoreFaults }

\* the record of a request and its response
Request(endpoint, req, fault, r) ==
  [endpoint |-> endpoint, req |-> req, fault |-> fault, status |-> r.status,
   detail |-> r.detail, calls |-> r.calls, body |-> r.body, count |-> r.count]

NoRequest ==
  [endpoint |-> "none", req |-> NoArgs, fault |-> <<>>, status |-> 0,
   detail |-> NoDetail, calls |-> <<>>, body |-> <<>>, count |-> 0]

\* ------------------------------------------------------ concurrent callers
NumProcs == 2
Procs == 1..NumProcs

\* a caller's unit of work: the call and its arguments, the position in the
\* bulk input, the row the call has read, the inserts not yet committed, and
\* once it has ended its outcome and the status of the HTTP response
Tx(pc, op, name, provider, kw, models, pos, seen, pending, count, outcome, status, dup) ==
  [pc |-> pc, op |-> op, name |-> name, provider |-> provider, kw |-> kw,
   models |-> models, pos |-> pos, seen |-> seen, pending |-> pending,
   count |-> count, outcome |-> outcome, status |-> status, dup |-> dup]

Idle == Tx("idle", "", "", "", NoArgs, <<>>, 0, <<>>, <<>>, 0, "", 0, FALSE)

\* ----------------------------------------------------------------- actions
Call(op, name, provider, kw, models, outcome, rows, count) ==
  [op |-> op, name |-> name, provider |-> provider, kw |-> kw,
   models |-> models, outcome |-> outcome, rows |-> rows, count |-> count]

Init ==
  /\ table = <<>>
  /\ nextId = 1
  /\ now = 0
  /\ last = Call("init", "", "", NoArgs, <<>>, "", <<>>, 0)
  /\ schema = "metadata"
  /\ api = NoRequest
  /\ tx = [p \in Procs |-> Idle]
  /\ commitOrder = <<>>

\* time passes between two calls
Tick ==
  /\ now < MaxTime
  /\ now' = now + 1
  /\ UNCHANGED <<table, nextId, last>>
  /\ UNCHANGED direct

GetAllModels ==
  /\ last' = Call("get_all_models", "", "", NoArgs, <<>>, "ok",
                  get_all_models(table), 0)
  /\ UNCHANGED <<table, nextId, now>>
  /\ UNCHANGED direct

GetEnabledModels ==
  /\ last' = Call("get_enabled_models", "", "", NoArgs, <<>>, "ok",
                  get_enabled_models(table), 0)
  /\ UNCHANGED <<table, nextId, now>>
  /\ UNCHANGED direct

GetVerifiedModels ==
  /\ last' = Call("get_verified_models", "", "", NoArgs, <<>>, "ok",
                  get_verified_models(table), 0)
  /\ UNCHANGED <<table, nextId, now>>
  /\ UNCHANGED direct

GetModelsByProvider ==
  \E provider \in Providers :
    /\ last' = Call("get_models_by_provider", "", provider, NoArgs, <<>>, "ok",
                    get_models_by_provider(table, provider), 0)
    /\ UNCHANGED <<table, nextId, now>>
    /\ UNCHANGED direct

GetModelByName ==
  \E name \in Names :
    /\ LET model == get_model_by_name(table, name)
       IN last' = Call("get_model_by_name", name, "", NoArgs, <<>>,
                       IF model = <<>> THEN "None" ELSE "ok", model, 0)
    /\ UNCHANGED <<table, nextId, now>>
    /\ UNCHANGED direct

CreateModel ==
  \E name \in Names, provider \in Providers, kw \in CreateFlagChoices :
    /\ \E r \in {create_model(table, nextId, now, name, provider, kw)} :
         /\ r.nextId <= MaxId + 1
         /\ table' = r.table
         /\ nextId' = r.nextId
         /\ last' = Call("create_model", name, provider, kw, <<>>, r.outcome,
                         r.rows, 0)
    /\ UNCHANGED now
    /\ UNCHANGED direct

UpdateModel ==
  \E name \in Names, kw \in UpdateFieldChoices :
    /\ \E r \in {update_model(table, now, name, kw)} :
         /\ table' = r.table
         /\ last' = Call("update_model", name, "", kw, <<>>, r.outcome,
                         r.rows, 0)
    /\ UNCHANGED <<nextId, now>>
    /\ UNCHANGED direct

DeleteModel ==
  \E name \in Names :
    /\ \E r \in {delete_model(table, name)} :
         /\ table' = r.table
         /\ last' = Call("delete_model", name, "", NoArgs, <<>>, r.outcome,
                         <<>>, 0)
    /\ UNCHANGED <<nextId, now>>
    /\ UNCHANGED direct

BulkCreateModels ==
  \E models \in BulkInputs :
    /\ \E r \in {bulk_create_models(table, nextId, now, models)} :
         /\ r.nextId <= MaxId + 1
         /\ table' = r.table
         /\ nextId' = r.nextId
         /\ last' = Call("bulk_create_models", "", "", NoArgs, models,
                         r.outcome, <<>>, r.count)
    /\ UNCHANGED now
    /\ UNCHANGED direct

Next ==
  \/ GetAllModels
  \/ GetEnabledModels
  \/ GetVerifiedModels
  \/ GetModelsByProvider
  \/ GetModelByName
  \/ CreateModel
  \/ UpdateModel
  \/ DeleteModel
  \/ BulkCreateModels
  \/ Tick

Spec == Init /\ [][Next]_vars

\* ------------------------------------------------------------ API actions
ApiList ==
  \E c \in Calls(ListQueries, {q \in ListQueries : q.limit \in {0, DefaultLimit}
                                                      /\ ~q.verified_only}) :
    /\ \E r \in {list_verified_models(table, c[1], c[2])} :
         api' = Request("list", c[1], c[2], r)
    /\ UNCHANGED <<table, nextId, now, last, schema, tx, commitOrder>>

ApiGet ==
  \E c \in Calls(ApiPathNames, ApiPathNames) :
    /\ \E r \in {get_verified_model(table, c[1], c[2])} :
         api' = Request("get", [model_name |-> c[1]], c[2], r)
    /\ UNCHANGED <<table, nextId, now, last, schema, tx, commitOrder>>

ApiCreate ==
  \E c \in Calls(CreateRequests, {d \in CreateRequests : d.flags = NoArgs}) :
    /\ \E r \in {create_verified_model(table, nextId, now, c[1], c[2])} :
         /\ r.nextId <= MaxId + 1
         /\ table' = r.table
         /\ nextId' = r.nextId
         /\ api' = Request("create", c[1], c[2], r)
    /\ UNCHANGED <<now, last, schema, tx, commitOrder>>

ApiUpdate ==
  \E c \in Calls(UpdateRequests, UpdateRequests) :
    /\ \E r \in {update_verified_model(table, now, c[1].model_name,
                                       c[1].flags, c[2])} :
         /\ table' = r.table
         /\ api' = Request("update", c[1], c[2], r)
    /\ UNCHANGED <<nextId, now, last, schema, tx, commitOrder>>

ApiDelete ==
  \E c \in Calls(ApiPathNames, ApiPathNames) :
    /\ \E r \in {delete_verified_model(table, c[1], c[2])} :
         /\ table' = r.table
         /\ api' = Request("delete", [model_name |-> c[1]], c[2], r)
    /\ UNCHANGED <<nextId, now, last, schema, tx, commitOrder>>

ApiBulkCreate ==
  \E c \in Calls(BulkRequests, {m \in BulkRequests : Len(m) = 1}) :
    /\ \E r \in {bulk_create_verified_models(table, nextId, now, c[1], c[2])} :
         /\ r.nextId <= MaxId + 1
         /\ table' = r.table
         /\ nextId' = r.nextId
         /\ api' = Request("bulk", [models |-> c[1]], c[2], r)
    /\ UNCHANGED <<now, last, schema, tx, commitOrder>>

ApiNext ==
  \/ ApiList
  \/ ApiGet
  \/ ApiCreate
  \/ ApiUpdate
  \/ ApiDelete
  \/ ApiBulkCreate

\* the registry behind its REST surface, one request at a time
ApiSpec == Init /\ [][ApiNext]_vars

\* ---------------------------------------------------- concurrent callers
\* The units of work of the callers interleave at the statements that reach
\* the database: a query sees the rows committed so far and the caller's own
\* pending rows; the INSERTs and UPDATEs of a unit of work reach the table
\* when it commits, and the unique constraint decides then.

\* the record create_model("m1", "p1") has stored
SeedRow == NewRow(1, CreateKwargs("m1", "p1", NoArgs), 0)

\* flags of concurrent update_model calls
ConcUpdateChoices == {[is_enabled |-> TRUE], [is_enabled |-> FALSE]}

\* inputs of concurrent bulk_create_models calls
ConcBulkItems ==
  { [model_name |-> "m2", provider |-> "p1"],
    [model_name |-> "m2", provider |-> "p2"] }

ConcBulkInputs == UNION { [1..n -> ConcBulkItems] : n \in 1..MaxBulk }

ConcInit ==
  /\ schema \in Schemas
  /\ table \in {<<>>, <<SeedRow>>}
  /\ nextId = Len(table) + 1
  /\ now = 0
  /\ last = Call("init", "", "", NoArgs, <<>>, "", <<>>, 0)
  /\ api = NoRequest
  /\ tx = [p \in Procs |-> Idle]
  /\ commitOrder = <<>>

\* the unit of work of p ends
End(p, t) ==
  /\ tx' = [tx EXCEPT ![p] = t]
  /\ commitOrder' = Append(commitOrder, p)

\* create_model up to its existence query; the duplicate-name error ends it
ConcCreateCheck(p) ==
  /\ tx[p].pc = "idle"
  /\ \E name \in Names, provider \in Providers :
       LET existing == FirstByName(table, name)
       IN IF existing # <<>>
            THEN End(p, Tx("done", "create", name, provider, NoArgs, <<>>, 0,
                           existing, <<>>, 0, "ValueError",
                           create_status("ValueError", name), TRUE))
          ELSE /\ tx' = [tx EXCEPT ![p] =
                           Tx("open", "create", name, provider, NoArgs, <<>>, 0,
                              <<>>, <<>>, 0, "", 0, FALSE)]
               /\ UNCHANGED commitOrder
  /\ UNCHANGED <<table, nextId, now, last, schema, api>>

\* create_model from session.add to the end: the INSERT and the commit
ConcCreateCommit(p) ==
  /\ tx[p].pc = "open"
  /\ tx[p].op = "create"
  /\ LET t == tx[p]
         f == FlushAll(table, <<CreateKwargs(t.name, t.provider, t.kw)>>,
                       nextId, now)
         outcome == IF f.err = "" THEN "ok" ELSE f.err
     IN /\ table' = IF f.err = "" THEN f.rows ELSE table
        /\ nextId' = IF f.err = "" THEN f.nid ELSE nextId
        /\ End(p, [t EXCEPT !.pc = "done", !.outcome = outcome,
                            !.status = create_status(outcome, t.name),
                            !.dup = FirstByName(table, t.name) # <<>>])
  /\ UNCHANGED <<now, last, schema, api>>

\* update_model up to its query; a name that is not stored ends it
ConcUpdateRead(p) ==
  /\ tx[p].pc = "idle"
  /\ \E name \in Names, kw \in ConcUpdateChoices :
       LET model == FirstByName(table, name)
       IN IF model = <<>>
            THEN End(p, Tx("done", "update", name, "", kw, <<>>, 0, <<>>, <<>>,
                           0, "None", 0, FALSE))
          ELSE /\ tx' = [tx EXCEPT ![p] =
                           Tx("open", "update", name, "", kw, <<>>, 0, model,
                              <<>>, 0, "", 0, FALSE)]
               /\ UNCHANGED commitOrder
  /\ UNCHANGED <<table, nextId, now, last, schema, api>>

\* update_model from the assignments to the end: the UPDATE and the commit
ConcUpdateCommit(p) ==
  /\ tx[p].pc = "open"
  /\ tx[p].op = "update"
  /\ LET t == tx[p]
         loaded == t.seen[1]
         i == CHOOSE j \in 1..Len(table) : table[j].id = loaded.id
         row == CommitUpdateOnto(table[i], loaded, Assigned(loaded, t.kw), now)
     IN /\ table' = [table EXCEPT ![i] = row]
        /\ End(p, [t EXCEPT !.pc = "done", !.outcome = "ok"])
  /\ UNCHANGED <<nextId, now, last, schema, api>>

\* one round of the loop of bulk_create_models: the existence query, which
\* sees the caller's own pending rows, and the session.add
ConcBulkItem(p) ==
  /\ \/ tx[p].pc = "idle"
     \/ tx[p].pc = "open" /\ tx[p].op = "bulk" /\ tx[p].pos <= Len(tx[p].models)
  /\ \E models \in IF tx[p].pc = "idle" THEN ConcBulkInputs ELSE {tx[p].models} :
       LET pos == IF tx[p].pc = "idle" THEN 1 ELSE tx[p].pos
           name == models[pos].model_name
           existing == \/ FirstByName(table, name) # <<>>
                       \/ FirstByName(tx[p].pending, name) # <<>>
       IN tx' = [tx EXCEPT ![p] =
                   Tx("open", "bulk", "", "", NoArgs, models, pos + 1, <<>>,
                      IF existing THEN tx[p].pending
                      ELSE Append(tx[p].pending, models[pos]),
                      IF existing THEN tx[p].count ELSE tx[p].count + 1,
                      "", 0, FALSE)]
  /\ UNCHANGED <<table, nextId, now, last, schema, api, commitOrder>>

\* the commit of bulk_create_models, and the rollback when it fails
ConcBulkCommit(p) ==
  /\ tx[p].pc = "open"
  /\ tx[p].op = "bulk"
  /\ tx[p].pos > Len(tx[p].models)
  /\ LET t == tx[p]
         f == FlushAll(table, t.pending, nextId, now)
     IN /\ table' = IF f.err = "" THEN f.rows ELSE table
        /\ nextId' = IF f.err = "" THEN f.nid ELSE nextId
        /\ End(p, [t EXCEPT !.pc = "done",
                            !.outcome = IF f.err = "" THEN "ok" ELSE f.err])
  /\ UNCHANGED <<now, last, schema, api>>

ConcNext ==
  \E p \in Procs :
    \/ ConcCreateCheck(p)
    \/ ConcCreateCommit(p)
    \/ ConcUpdateRead(p)
    \/ ConcUpdateCommit(p)
    \/ ConcBulkItem(p)
    \/ ConcBulkCommit(p)

\* callers that run one store call each, at the same time
ConcSpec == ConcInit /\ [][ConcNext]_vars

\* ------------------------------------------------------------- properties
RowSet(rows) == {rows[i] : i \in 1..Len(rows)}

NoRepeat(rows) == \A i, j \in 1..Len(rows) : i # j => rows[i] # rows[j]

\* a step of a store call, as opposed to the passing of time
CallStep == now' = now

\* C1: no two stored records have the same model_name, whatever their
\* providers are
C1_UniqueModelName ==
  \A i, j \in 1..Len(table) :
    i # j => table[i].model_name # table[j].model_name

\* two records are stored and a bulk_create_models call has just skipped
\* every record of a non-empty input as a duplicate
C1_Witness ==
  /\ Len(table) = 2
  /\ last.op = "bulk_create_models"
  /\ last.outcome = "ok"
  /\ last.count = 0
  /\ last.models # <<>>

\* C2: create_model on a stored model_name, with the same or another
\* provider, raises the duplicate-name error, inserts nothing and leaves the
\* table as it was, so get_model_by_name still returns the first record
C2_DuplicateCreateRejected ==
  [][(/\ CallStep
      /\ last'.op = "create_model"
      /\ FirstByName(table, last'.name) # <<>>)
     => (/\ last'.outcome = "ValueError"
         /\ last'.rows = <<>>
         /\ table' = table
         /\ get_model_by_name(table', last'.name) = FirstByName(table, last'.name))]_vars

\* a create_model call was rejected as a duplicate although it named another
\* provider than the stored record, with a second record stored
C2_Witness ==
  /\ last.op = "create_model"
  /\ last.outcome = "ValueError"
  /\ Len(table) = 2
  /\ FirstByName(table, last.name) # <<>>
  /\ FirstByName(table, last.name)[1].provider # last.provider

\* C3: after a successful create_model, get_model_by_name returns a record
\* with a generated id whose model_name, provider and six flags are the
\* values passed, is_verified and is_enabled defaulting to true and the four
\* capability flags to false when omitted
C3_CreateRoundTrip ==
  (last.op = "create_model" /\ last.outcome = "ok") =>
    LET got == get_model_by_name(table, last.name)
    IN /\ got # <<>>
       /\ got = last.rows
       /\ got[1].id \in 1..MaxId
       /\ \A i \in 1..Len(table) :
            table[i].id = got[1].id => table[i] = got[1]
       /\ got[1].model_name = last.name
       /\ got[1].provider = last.provider
       /\ \A k \in FlagNames :
            got[1][k] = IF k \in DOMAIN last.kw THEN last.kw[k]
                        ELSE k \in {"is_verified", "is_enabled"}

\* a create_model call that gave no flag has succeeded as the second record
C3_Witness ==
  /\ last.op = "create_model"
  /\ last.outcome = "ok"
  /\ last.kw = NoArgs
  /\ Len(table) = 2

\* C4: get_enabled_models returns exactly the records with is_enabled true,
\* and get_verified_models exactly those with is_verified and is_enabled true
C4_EnabledAndVerifiedLists ==
  /\ last.op = "get_enabled_models" =>
       /\ RowSet(last.rows) = {r \in RowSet(table) : r.is_enabled}
       /\ NoRepeat(last.rows)
  /\ last.op = "get_verified_models" =>
       /\ RowSet(last.rows) = {r \in RowSet(table) : r.is_verified /\ r.is_enabled}
       /\ NoRepeat(last.rows)
       /\ \A i \in 1..Len(last.rows) :
            last.rows[i].is_verified /\ last.rows[i].is_enabled

\* get_verified_models has answered with nothing while a verified but
\* disabled record and an enabled but unverified record are stored
C4_Witness ==
  /\ last.op = "get_verified_models"
  /\ last.rows = <<>>
  /\ \E r \in RowSet(table) : r.is_verified /\ ~r.is_enabled
  /\ \E r \in RowSet(table) : ~r.is_verified /\ r.is_enabled

\* C5: get_models_by_provider(p) returns exactly the records whose provider
\* is p and whose is_enabled is true
C5_ByProviderList ==
  last.op = "get_models_by_provider" =>
    /\ RowSet(last.rows) =
         {r \in RowSet(table) : r.provider = last.provider /\ r.is_enabled}
    /\ NoRepeat(last.rows)

\* get_models_by_provider has returned one record while a disabled record of
\* that provider is stored
C5_Witness ==
  /\ last.op = "get_models_by_provider"
  /\ Len(last.rows) = 1
  /\ \E r \in RowSet(table) : r.provider = last.provider /\ ~r.is_enabled

\* the stored record named name (to be used where one is stored)
Stored(rows, name) == FirstByName(rows, name)[1]

IsStored(rows, name) == FirstByName(rows, name) # <<>>

\* C6: update_model on an existing record overwrites exactly the flags whose
\* argument is not None with the given value, false included, and leaves
\* every other flag as it was; the returned record and get_model_by_name
\* both show that result
C6_PartialUpdate ==
  [][(/\ CallStep
      /\ last'.op = "update_model"
      /\ IsStored(table, last'.name))
     => (/\ last'.outcome = "ok"
         /\ get_model_by_name(table', last'.name) # <<>>
         /\ last'.rows = get_model_by_name(table', last'.name)
         /\ \A k \in FlagNames :
              last'.rows[1][k] = IF k \in DOMAIN last'.kw THEN last'.kw[k]
                                 ELSE Stored(table, last'.name)[k])]_vars

\* an update_model call has set is_enabled to false and supports_vision to
\* true on a record that keeps is_verified true
C6_Witness ==
  /\ last.op = "update_model"
  /\ last.outcome = "ok"
  /\ DOMAIN last.kw = {"is_enabled", "supports_vision"}
  /\ last.rows[1].is_verified
  /\ ~last.rows[1].is_enabled
  /\ last.rows[1].supports_vision
  /\ last.rows[1].updated_at > last.rows[1].created_at

\* C7 as claimed: every update_model call that finds the record leaves its
\* updated_at at the time of the call, whatever the arguments
C7_AlwaysRefreshed ==
  [][(/\ CallStep
      /\ last'.op = "update_model"
      /\ last'.outcome = "ok")
     => last'.rows[1].updated_at = now']_vars

\* C7 as amended: an update_model call that changes the stored value of at
\* least one flag sets updated_at to the time of the call; a call whose
\* arguments are all None, or all equal to the stored values, leaves
\* updated_at as it was
C7_RefreshedOnChange ==
  [][(/\ CallStep
      /\ last'.op = "update_model"
      /\ last'.outcome = "ok")
     => IF \E k \in FlagNames : last'.rows[1][k] # Stored(table, last'.name)[k]
          THEN last'.rows[1].updated_at = now'
          ELSE last'.rows[1].updated_at = Stored(table, last'.name).updated_at]_vars

\* an update_model call with arguments has returned a record whose updated_at
\* is the time of the call, later than its created_at
C7_Witness ==
  /\ last.op = "update_model"
  /\ last.outcome = "ok"
  /\ last.kw # NoArgs
  /\ last.rows[1].updated_at = now
  /\ last.rows[1].created_at < now

\* C8: for a name that is not stored, get_model_by_name returns None,
\* update_model returns None and delete_model returns False, and the table is
\* the same before and after
C8_NotFound ==
  [][(/\ CallStep
      /\ last'.op \in {"get_model_by_name", "update_model", "delete_model"}
      /\ ~IsStored(table, last'.name))
     => (/\ table' = table
         /\ last'.rows = <<>>
         /\ last'.outcome = IF last'.op = "delete_model" THEN "False"
                            ELSE "None")]_vars

\* delete_model has returned False for a name that is not stored while
\* another record is
C8_Witness ==
  /\ last.op = "delete_model"
  /\ last.outcome = "False"
  /\ table # <<>>

\* C9: delete_model on an existing record returns True and removes exactly
\* that record: get_model_by_name and the list operations no longer return
\* it, every other record is unchanged, and a create_model of a name that is
\* not stored succeeds
C9_Delete ==
  [][/\ (/\ CallStep
         /\ last'.op = "delete_model"
         /\ IsStored(table, last'.name))
        => (/\ last'.outcome = "True"
            /\ get_model_by_name(table', last'.name) = <<>>
            /\ table' = SelectSeq(table, LAMBDA r : r.model_name # last'.name)
            /\ RowSet(table') = RowSet(table) \ {Stored(table, last'.name)}
            /\ \A r \in RowSet(get_all_models(table'))
                        \cup RowSet(get_enabled_models(table'))
                        \cup RowSet(get_verified_models(table'))
                        \cup UNION {RowSet(get_models_by_provider(table', p)) :
                                    p \in Providers} :
                 r.model_name # last'.name)
     /\ (/\ CallStep
         /\ last'.op = "create_model"
         /\ ~IsStored(table, last'.name))
        => (last'.outcome = "ok" /\ IsStored(table', last'.name))]_vars

\* delete_model has returned True and another record is still stored
C9_Witness ==
  /\ last.op = "delete_model"
  /\ last.outcome = "True"
  /\ Len(table) = 1
  /\ table[1].model_name # last.name

\* the flags a model_data dict gives a new row
ItemGives(item, row) ==
  /\ "provider" \in DOMAIN item
  /\ item.model_name = row.model_name
  /\ item.provider = row.provider
  /\ \A k \in FlagNames :
       row[k] = IF k \in DOMAIN item THEN item[k]
                ELSE k \in {"is_verified", "is_enabled"}

\* C10: a bulk_create_models call that ends without an error leaves every
\* stored record as it was, inserts a record for every input name that was
\* not stored and for no other, returns the number of records inserted, and
\* every input name is then returned by get_model_by_name
C10_BulkCreate ==
  [][(/\ CallStep
      /\ last'.op = "bulk_create_models"
      /\ last'.outcome = "ok")
     => (/\ Len(table') >= Len(table)
         /\ SubSeq(table', 1, Len(table)) = table
         /\ last'.count = Len(table') - Len(table)
         /\ \A i \in 1..Len(last'.models) :
              /\ get_model_by_name(table', last'.models[i].model_name) # <<>>
              /\ IsStored(table, last'.models[i].model_name) =>
                   get_model_by_name(table', last'.models[i].model_name)
                     = FirstByName(table, last'.models[i].model_name)
         /\ \A j \in (Len(table) + 1)..Len(table') :
              /\ ~IsStored(table, table'[j].model_name)
              /\ \E i \in 1..Len(last'.models) :
                   ItemGives(last'.models[i], table'[j]))]_vars

\* a bulk_create_models call of two records has inserted one and skipped the
\* other, whose stored record has another provider than the input
C10_Witness ==
  /\ last.op = "bulk_create_models"
  /\ last.outcome = "ok"
  /\ Len(last.models) = 2
  /\ last.count = 1
  /\ \E i \in 1..2 :
       /\ "provider" \in DOMAIN last.models[i]
       /\ Stored(table, last.models[i].model_name).provider
            # last.models[i].provider

\* a model_data dict VerifiedModel(**model_data) accepts and the table takes
WellFormed(item) ==
  /\ {"model_name", "provider"} \subseteq DOMAIN item
  /\ DOMAIN item \subseteq Columns

\* position i holds the first record of its name in the input
FirstOccurrence(models, i) ==
  \A j \in 1..(i - 1) : models[j].model_name # models[i].model_name

C20_BulkInBatchDuplicates ==
  [][(/\ CallStep
      /\ last'.op = "bulk_create_models")
     => LET models == last'.models
            fresh == {models[i].model_name : i \in 1..Len(models)}
                       \ {table[i].model_name : i \in 1..Len(table)}
        IN /\ (\A i \in 1..Len(models) :
                 (FirstOccurrence(models, i) /\ models[i].model_name \in fresh)
                    => WellFormed(models[i]))
                => last'.outcome = "ok"
           /\ last'.outcome = "ok" =>
                /\ last'.count = Cardinality(fresh)
                /\ Len(table') = Len(table) + last'.count
                /\ \A i \in 1..Len(models) :
                     (FirstOccurrence(models, i) /\ models[i].model_name \in fresh)
                       => ItemGives(models[i], Stored(table', models[i].model_name))]_vars

\* a bulk_create_models call whose two records have the same name, not stored
\* before, has returned 1 and the stored record is the first of the two
C20_Witness ==
  /\ last.op = "bulk_create_models"
  /\ last.outcome = "ok"
  /\ Len(last.models) = 2
  /\ last.models[1].model_name = last.models[2].model_name
  /\ last.models[1] # last.models[2]
  /\ last.count = 1
  /\ ItemGives(last.models[1], Stored(table, last.models[1].model_name))

\* ------------------------------------------------- properties of the API
\* a model_name the validation rule excludes: empty, starting or ending
\* with a character that is not alphanumeric, holding inside a character
\* other than alphanumerics, '-', '_' and '.', or longer than 255 characters
BadModelName(s) ==
  \/ Len(s) = 0
  \/ Len(s) > MaxModelNameLen
  \/ ~Alnum(s[1])
  \/ ~Alnum(s[Len(s)])
  \/ \E i \in 2..(Len(s) - 1) : ~(Alnum(s[i]) \/ s[i] \in {"-", "_", "."})

\* C12: for every model_name that is empty, starts or ends with a
\* non-alphanumeric character (a line break included), holds a forbidden
\* character inside or is longer than 255 characters, the create endpoint
\* answers 400, does not call the store and leaves the table as it was
C12_BadNameRejected ==
  [][(/\ api'.endpoint = "create"
      /\ BadModelName(api'.req.model_name))
     => (/\ api'.status = 400
         /\ api'.calls = <<>>
         /\ table' = table)]_vars

\* some item of a bulk request is rejected by _validate_model_input
SomeItemInvalid(models) ==
  \E i \in 1..Len(models) :
    validate_model_input(models[i].model_name, models[i].provider) # ""

\* C13: a bulk-create request with an item, at any position, whose
\* model_name or provider fails validation is answered 400 without a call of
\* bulk_create_models, and no item of the request is inserted
C13_BulkValidation ==
  [][(/\ api'.endpoint = "bulk"
      /\ SomeItemInvalid(api'.req.models))
     => (/\ api'.status = 400
         /\ api'.calls = <<>>
         /\ api'.count = 0
         /\ table' = table
         /\ nextId' = nextId)]_vars

\* a bulk-create request was answered 400 for its second item while its
\* first item is valid and its name is not stored
C13_Witness ==
  /\ api.endpoint = "bulk"
  /\ api.status = 400
  /\ Len(api.req.models) = 2
  /\ validate_model_input(api.req.models[1].model_name,
                          api.req.models[1].provider) = ""
  /\ ~IsStored(table, api.req.models[1].model_name)
  /\ Len(table) < MaxId

\* what the store method the list endpoint called returns
StoreResult(method, rows, q) ==
  IF method = "get_models_by_provider"
    THEN get_models_by_provider(rows, q.provider[1])
  ELSE IF method = "get_verified_models" THEN get_verified_models(rows)
  ELSE IF method = "get_enabled_models" THEN get_enabled_models(rows)
  ELSE get_all_models(rows)

\* C14: the list endpoint answers 400 without a store call when limit < 1,
\* limit > 1000 or offset < 0; otherwise, when the store returns, the body
\* is the elements offset .. offset+limit-1 of the store's result in the
\* store's order: at most limit records, and none when offset is at or past
\* the end
C14_ListPagination ==
  api.endpoint = "list" =>
    LET q == api.req
    IN IF q.limit < 1 \/ q.limit > 1000 \/ q.offset < 0
         THEN api.status = 400 /\ api.calls = <<>>
       ELSE /\ Len(api.calls) = 1
            /\ api.fault = <<>> =>
                 LET result == StoreResult(api.calls[1], table, q)
                     left == Len(result) - q.offset
                     n == IF left < 0 THEN 0
                          ELSE IF left < q.limit THEN left ELSE q.limit
                 IN /\ api.status = 200
                    /\ Len(api.body) = n
                    /\ Len(api.body) <= q.limit
                    /\ \A i \in 1..n :
                         api.body[i] = model_to_response(result[q.offset + i])
                    /\ q.offset >= Len(result) => api.body = <<>>

\* a list request with limit 1 and offset 1 has returned the second of two
\* stored records
C14_Witness ==
  /\ api.endpoint = "list"
  /\ api.status = 200
  /\ api.req.limit = 1
  /\ api.req.offset = 1
  /\ Len(table) = 2
  /\ api.body = <<model_to_response(table[2])>>

\* the generic message of an endpoint's `except Exception` clause
GenericMessage(endpoint) ==
  IF endpoint = "list" THEN "Failed to list verified models"
  ELSE IF endpoint = "get" THEN "Failed to get verified model"
  ELSE IF endpoint = "create" THEN "Failed to create verified model"
  ELSE IF endpoint = "update" THEN "Failed to update verified model"
  ELSE IF endpoint = "delete" THEN "Failed to delete verified model"
  ELSE "Failed to bulk create verified models"

\* C16: at every endpoint, an exception of the store other than the
\* duplicate-name error of create is answered 500 with the endpoint's
\* generic message, and the text of the exception is not in the response
C16_GenericInternalError ==
  (api.calls # <<>> /\ api.fault # <<>>) =>
    /\ api.status = 500
    /\ api.detail = Detail(GenericMessage(api.endpoint), <<>>)
    /\ api.detail # api.fault[1].text

\* C19: every record the list endpoint returns satisfies every filter of
\* the request, whatever the combination: the provider when one is given,
\* enabled when enabled_only, verified when verified_only; and a request
\* without filters returns every record
C19_ListFilters ==
  (api.endpoint = "list" /\ api.status = 200) =>
    LET q == api.req
    IN /\ \A i \in 1..Len(api.body) :
            /\ q.provider # <<>> => api.body[i].provider = q.provider[1]
            /\ q.enabled_only => api.body[i].is_enabled
            /\ q.verified_only => api.body[i].is_verified
       /\ (/\ q.provider = <<>> /\ ~q.enabled_only /\ ~q.verified_only
           /\ q.limit = DefaultLimit /\ q.offset = DefaultOffset)
            => api.body = responses(table)

\* --------------------------------------- properties of concurrent callers
Finished(p) == tx[p].pc = "done"

\* p ended before q did
EndedBefore(p, q) ==
  \E i, j \in 1..Len(commitOrder) :
    i < j /\ commitOrder[i] = p /\ commitOrder[j] = q

\* C15 as claimed: a create request whose model_name is taken, be it by a
\* record committed before its existence check or by one committed between
\* that check and its own commit, is answered 400 and not 500
C15_DuplicateAlwaysBadRequest ==
  \A p \in Procs :
    (Finished(p) /\ tx[p].op = "create" /\ tx[p].dup) => tx[p].status = 400

\* C15 as amended: a create request is answered 400 exactly when its
\* existence check finds a record of that name, and then never 500; when
\* the other record is committed between the check and the commit the
\* request is not answered 400: it is answered 500 if the unique constraint
\* of the table rejects the insert, and that is the only way to a 500
C15_DuplicateSeenByCheck ==
  \A p \in Procs :
    (Finished(p) /\ tx[p].op = "create") =>
      /\ tx[p].seen # <<>> <=> tx[p].status = 400
      /\ tx[p].seen # <<>> => tx[p].outcome = "ValueError"
      /\ tx[p].status = 500 <=> tx[p].outcome = "IntegrityError"
      /\ tx[p].status = 500 => (tx[p].seen = <<>> /\ tx[p].dup)
      /\ tx[p].status \in {201, 400, 500}

\* two concurrent create requests of one name have ended, the one that
\* committed with 201 and the other, whose check ran after that commit,
\* with 400
C15_Witness ==
  \E p, q \in Procs :
    /\ p # q
    /\ Finished(p) /\ tx[p].op = "create" /\ tx[p].status = 201
    /\ Finished(q) /\ tx[q].op = "create" /\ tx[q].status = 400
    /\ tx[q].name = tx[p].name
    /\ EndedBefore(p, q)

\* the callers whose update_model of name has committed a value for flag k
Writers(name, k) ==
  {p \in Procs : /\ Finished(p)
                 /\ tx[p].op = "update"
                 /\ tx[p].outcome = "ok"
                 /\ tx[p].name = name
                 /\ k \in DOMAIN tx[p].kw}

\* C17: once two concurrent update_model calls on one record that give a
\* value for the same flag have both committed, the stored flag is the
\* value given by the call that committed last
C17_LastWriterWins ==
  \A name \in Names, k \in FlagNames :
    \A p \in Writers(name, k) :
      (/\ Cardinality(Writers(name, k)) >= 2
       /\ \A q \in Procs : tx[q].pc # "open"
       /\ \A q \in Writers(name, k) \ {p} : EndedBefore(q, p))
        => Stored(table, name)[k] = tx[p].kw[k]

\* C18: once all the concurrent create_model and bulk_create_models calls
\* have ended, no two stored records have the same model_name, whatever the
\* providers the calls gave
C18_OneRecordPerName ==
  (\A p \in Procs : tx[p].pc # "open") =>
    \A i, j \in 1..Len(table) :
      i # j => table[i].model_name # table[j].model_name

\* the columns no operation writes after the insert
ImmutableColumns == {"id", "model_name", "provider", "created_at"}

\* C21: no operation changes the id, model_name, provider or created_at of
\* a stored record: update_model changes at most the flags and updated_at
\* of the record it names, delete_model removes the record it names, and
\* every record a call does not name is still stored with all its fields
\* as they were; the passing of time changes nothing
C21_FrameOfRecords ==
  [][/\ ~CallStep => table' = table
     /\ CallStep =>
          \A i \in 1..Len(table) :
            LET r == table[i]
                after == {s \in RowSet(table') : s.id = r.id}
                targeted == /\ last'.op \in {"update_model", "delete_model"}
                            /\ last'.name = r.model_name
            IN IF ~targeted THEN after = {r}
               ELSE IF last'.op = "delete_model" THEN after = {}
               ELSE /\ Cardinality(after) = 1
                    /\ \A s \in after :
                         \A c \in Columns :
                           (c \in ImmutableColumns
                              \/ c \notin FlagNames \cup {"updated_at"})
                             => s[c] = r[c]]_vars

\* an update_model call has changed a flag and updated_at of one of two
\* stored records, later than its insert
C21_Witness ==
  /\ last.op = "update_model"
  /\ last.outcome = "ok"
  /\ Len(table) = 2
  /\ last.rows[1].updated_at > last.rows[1].created_at
  /\ ~last.rows[1].is_enabled
  /\ \E i \in 1..2 : table[i].model_name # last.name

====
